---- MODULE Spec2Model ----
(***************************************************************************)
(* A model of the Audynce AI service (src/fastapi/app): the /ai/analyze    *)
(* endpoint of main.py, AIService of services/ai_service.py, CacheService  *)
(* of services/cache_service.py, the prompt builders of                    *)
(* utils/prompt_builder.py and the schemas of models/schemas.py.           *)
(*                                                                         *)
(* Representation of Python values                                         *)
(*   str that the code splits, slices or joins (prompt, genre tags, artist *)
(*   names, theme): a sequence of one-character strings ("text").          *)
(*   other str (description, mood, energy_level, keywords, JSON keys): a   *)
(*   TLA+ string ("atom").                                                 *)
(*   provider text: a sequence of lexemes; the six JSON structural         *)
(*   characters are lexemes of their own, a JSON string literal is the     *)
(*   lexeme Quote(atom), and any other lexeme is prose.                    *)
(*   value read by json.loads: a record [t, v], t the Python type name.    *)
(*   outcome of a call: [ok |-> TRUE, val |-> v] or                        *)
(*   [ok |-> FALSE, exc |-> <exception class>].                            *)
(***************************************************************************)
EXTENDS Integers, Sequences, FiniteSets, TLC

VARIABLES
  max_scenes,   \* settings.max_scenes (config/settings.py:21), read from the environment
  started,      \* the lifespan startup of main.py has run
  collection,   \* cache_service.collection: "none" (None) or "ready"
  store,        \* the ai_analysis_cache collection: its documents, in insertion order
  now,          \* the clock read by datetime.utcnow()
  cache_ret,    \* what the last CacheService call returned
  log,          \* the requests handled by POST /ai/analyze, with their responses
  svc,          \* a call of AIService.analyze_prompt in progress
  call,         \* the last application of one of the service's synchronous functions
  hf            \* a call of AIService._call_huggingface in progress

vars == <<max_scenes, started, collection, store, now, cache_ret, log, svc, call, hf>>

---------------------------------------------------------------------------
(* Bounds of the model *)

\* longest unit a prompt is built from
MaxUnit == 3
\* largest story_threshold drawn
MaxThreshold == 2
\* largest settings.max_scenes drawn
MaxScenesCfg == 3
\* longest "scenes" array in a provider answer
MaxArr == 3
\* requests handled in one run of the endpoint
MaxRequests == 2
\* writes to the cache in one run of the cache service
MaxPuts == 3

---------------------------------------------------------------------------
(* Program constants *)

\* httpx.AsyncClient(timeout=120.0), in seconds
ClientTimeout == 120
\* theme=prompt[:50]
ThemeLen == 50
\* selected_genres[:3]
GenreCut == 3
\* Field(..., min_length=10, max_length=2000)
MinPromptLen == 10
\* def analyze_prompt(self, prompt, selected_genres, story_threshold)
AnalyzePromptParams == 3
\* ai_service.analyze_prompt(request.prompt, request.selected_genres,
\*                           request.story_threshold, request.top_artists)
AnalyzePromptArgs == 4
\* def build_story_prompt(narrative, genres, top_artists), and build_direct_prompt alike
BuildPromptParams == 3
\* build_story_prompt(prompt, selected_genres), and build_direct_prompt alike
BuildPromptArgs == 2

\* class AnalysisRequest: the fields a validated request object has
AnalysisRequestFields == {"prompt", "selected_genres", "story_threshold"}

\* class MoodType
MoodType ==
  {"UPBEAT", "MELANCHOLIC", "ROMANTIC", "ADVENTUROUS", "PEACEFUL", "ENERGETIC",
   "INTENSE", "NOSTALGIC", "DREAMY", "CHILL", "BALANCED"}

STORY == "STORY"
DIRECT == "DIRECT"

---------------------------------------------------------------------------
(* Python helpers *)

Ok(v) == [ok |-> TRUE, val |-> v]
Raise(e) == [ok |-> FALSE, exc |-> e]

Whitespace == {" "}

\* s[:n] of a str or a list
Take(s, n) == SubSeq(s, 1, IF n < Len(s) THEN n ELSE Len(s))

\* s * n
Repeat(s, n) ==
  IF n <= 0 \/ s = <<>> THEN <<>>
  ELSE [i \in 1..(Len(s) * n) |-> s[((i - 1) % Len(s)) + 1]]

\* where the words of s start: a non-whitespace character at the start of s or
\* after a whitespace character
WordStarts(s) ==
  {i \in 1..Len(s) : s[i] \notin Whitespace /\ (i = 1 \/ s[i - 1] \in Whitespace)}

\* the last character of the word that starts at i
WordEnd(s, i) ==
  CHOOSE j \in i..Len(s) :
    /\ \A k \in i..j : s[k] \notin Whitespace
    /\ j = Len(s) \/ s[j + 1] \in Whitespace

\* str.split(): the maximal runs of non-whitespace characters, in order
split(s) ==
  LET starts == WordStarts(s)
      nth(k) == CHOOSE i \in starts : Cardinality({j \in starts : j < i}) = k - 1
  IN [k \in 1..Cardinality(starts) |-> SubSeq(s, nth(k), WordEnd(s, nth(k)))]

RECURSIVE join(_, _)
\* sep.join(parts)
join(sep, parts) ==
  IF parts = <<>> THEN <<>>
  ELSE IF Len(parts) = 1 THEN parts[1]
       ELSE parts[1] \o sep \o join(sep, Tail(parts))

\* the literals of ai_service.py that land in text fields
TxtPop == <<"p", "o", "p">>
TxtIndie == <<"i", "n", "d", "i", "e">>
TxtGeneralPlaylist ==
  <<"G", "e", "n", "e", "r", "a", "l", " ", "p", "l", "a", "y", "l", "i", "s", "t">>
TxtMusicPlaylist ==
  <<"M", "u", "s", "i", "c", " ", "p", "l", "a", "y", "l", "i", "s", "t">>

---------------------------------------------------------------------------
(* AIService: mode selection and the fallbacks *)

\* a mode selection that sends the boundary case to DIRECT
SelectModeStrict(prompt, story_threshold) ==
  IF Len(split(prompt)) > story_threshold THEN STORY ELSE DIRECT

\* word_count = len(prompt.split()); STORY if word_count >= story_threshold else DIRECT
SelectMode(prompt, story_threshold) ==
  IF Len(split(prompt)) >= story_threshold THEN STORY ELSE DIRECT

Scene(n, d, m, g, e) ==
  [scene_number |-> n, description |-> d, mood |-> m, suggested_genres |-> g,
   energy_level |-> e]

\* _fallback_story_scenes(prompt, selected_genres)
fallback_story_scenes(prompt, selected_genres) ==
  << Scene(1, "Opening - Setting the mood", "PEACEFUL",
           IF selected_genres # <<>> THEN Take(selected_genres, GenreCut) ELSE <<TxtPop>>,
           "low"),
     Scene(2, "Development - Building energy", "UPBEAT",
           IF selected_genres # <<>> THEN Take(selected_genres, GenreCut) ELSE <<TxtPop>>,
           "high"),
     Scene(3, "Resolution - Bringing it home", "NOSTALGIC",
           IF selected_genres # <<>> THEN Take(selected_genres, GenreCut) ELSE <<TxtIndie>>,
           "medium") >>

\* _fallback_direct_analysis with theme=prompt[:50], the default left out
fallback_direct_analysis_no_default(prompt, selected_genres) ==
  [mood |-> "BALANCED",
   extracted_genres |-> IF selected_genres # <<>> THEN selected_genres
                        ELSE <<TxtPop, TxtIndie>>,
   keywords |-> <<"music", "playlist">>,
   theme |-> Take(prompt, ThemeLen)]

\* _fallback_direct_analysis(prompt, selected_genres)
fallback_direct_analysis(prompt, selected_genres) ==
  [mood |-> "BALANCED",
   extracted_genres |-> IF selected_genres # <<>> THEN selected_genres
                        ELSE <<TxtPop, TxtIndie>>,
   keywords |-> <<"music", "playlist">>,
   theme |-> IF prompt # <<>> THEN Take(prompt, ThemeLen) ELSE TxtGeneralPlaylist]

---------------------------------------------------------------------------
(* The provider's text and json.loads *)

\* a JSON string literal: the atom between double quotes
Quote(atom) == "\"" \o atom \o "\""

\* the description the provider gives the j-th scene
Desc(j) == "Calm start " \o ToString(j)

\* the atoms that occur as JSON strings in the provider answers drawn
JsonAtoms ==
  {"scenes", "description", "mood", "genres", "energy", "keywords", "theme",
   "searchQuery", "soft piano", "high", "HAPPY", "T", "r", "k"}
  \cup MoodType \cup {Desc(j) : j \in 1..(MaxArr + 1)}

StringLexemes == {Quote(a) : a \in JsonAtoms}
Unquote(lex) == CHOOSE a \in JsonAtoms : Quote(a) = lex

Digits == 0..9
NumberLexemes == {ToString(n) : n \in Digits}
NumberOf(lex) == CHOOSE n \in Digits : ToString(n) = lex

\* Python values as json.loads returns them
PyStr(a) == [t |-> "str", v |-> a]
PyInt(n) == [t |-> "int", v |-> n]
PyList(s) == [t |-> "list", v |-> s]
PyDict(f) == [t |-> "dict", v |-> f]

POk(v, n) == [ok |-> TRUE, val |-> v, next |-> n]
PFail == [ok |-> FALSE]

RECURSIVE ParseValue(_, _), ParseMembers(_, _, _), ParseElements(_, _, _)

\* one JSON value starting at lexeme i; next is the lexeme after it
ParseValue(t, i) ==
  IF i > Len(t) THEN PFail
  ELSE IF t[i] = "{"
       THEN IF i + 1 <= Len(t) /\ t[i + 1] = "}"
            THEN POk(PyDict(<<>>), i + 2)
            ELSE ParseMembers(t, i + 1, <<>>)
  ELSE IF t[i] = "["
       THEN IF i + 1 <= Len(t) /\ t[i + 1] = "]"
            THEN POk(PyList(<<>>), i + 2)
            ELSE ParseElements(t, i + 1, <<>>)
  ELSE IF t[i] \in StringLexemes THEN POk(PyStr(Unquote(t[i])), i + 1)
  ELSE IF t[i] \in NumberLexemes THEN POk(PyInt(NumberOf(t[i])), i + 1)
  ELSE PFail

\* "key" : value { , "key" : value } "}"  (a repeated key keeps its last value)
ParseMembers(t, i, acc) ==
  IF i + 2 > Len(t) \/ t[i] \notin StringLexemes \/ t[i + 1] # ":" THEN PFail
  ELSE LET r == ParseValue(t, i + 2) IN
       IF ~r.ok \/ r.next > Len(t) THEN PFail
       ELSE LET acc2 == (Unquote(t[i]) :> r.val) @@ acc IN
            IF t[r.next] = "}" THEN POk(PyDict(acc2), r.next + 1)
            ELSE IF t[r.next] = "," THEN ParseMembers(t, r.next + 1, acc2)
            ELSE PFail

\* value { , value } "]"
ParseElements(t, i, acc) ==
  LET r == ParseValue(t, i) IN
  IF ~r.ok \/ r.next > Len(t) THEN PFail
  ELSE IF t[r.next] = "]" THEN POk(PyList(Append(acc, r.val)), r.next + 1)
  ELSE IF t[r.next] = "," THEN ParseElements(t, r.next + 1, Append(acc, r.val))
  ELSE PFail

\* json.loads(s): the value, or JSONDecodeError unless s is exactly one JSON value
json_loads(s) ==
  LET r == ParseValue(s, 1) IN
  IF r.ok /\ r.next = Len(s) + 1 THEN Ok(r.val) ELSE Raise("JSONDecodeError")

\* str.find(c): the 0-based index of the first c, or -1
find(s, c) ==
  IF \E i \in 1..Len(s) : s[i] = c
  THEN (CHOOSE i \in 1..Len(s) : s[i] = c /\ \A j \in 1..(i - 1) : s[j] # c) - 1
  ELSE -1

\* str.rfind(c): the 0-based index of the last c, or -1
rfind(s, c) ==
  IF \E i \in 1..Len(s) : s[i] = c
  THEN (CHOOSE i \in 1..Len(s) : s[i] = c /\ \A j \in (i + 1)..Len(s) : s[j] # c) - 1
  ELSE -1

\* s[a:b] for 0 <= a
Slice(s, a, b) == SubSeq(s, a + 1, IF b < Len(s) THEN b ELSE Len(s))

\* s[:n], n of either sign
SliceTo(s, n) ==
  IF n >= 0 THEN Take(s, n)
  ELSE SubSeq(s, 1, IF Len(s) + n > 0 THEN Len(s) + n ELSE 0)

\* dict.get(key, default)
Get(d, key, default) == IF key \in DOMAIN d THEN d[key] ELSE default

\* a JSON string that lands in a text field, kept as a one-element text
TextOf(atom) == <<atom>>

IsStr(x) == x.t = "str"
IsStrList(x) == x.t = "list" /\ \A i \in 1..Len(x.v) : x.v[i].t = "str"
TextList(x) == [i \in 1..Len(x.v) |-> TextOf(x.v[i].v)]
AtomList(x) == [i \in 1..Len(x.v) |-> x.v[i].v]

---------------------------------------------------------------------------
(* AIService: the response parsers *)

\* MoodType(x): the member with value x, or ValueError
MoodOf(x) == IF x.t = "str" /\ x.v \in MoodType THEN Ok(x.v) ELSE Raise("ValueError")

\* SceneAnalysis(scene_number=i, ...) of one element of data["scenes"]:
\* the model object, or the exception its construction raises
SceneOf(i, scene_data, selected_genres) ==
  IF scene_data.t # "dict" THEN Raise("AttributeError")
  ELSE LET d == scene_data.v
           description == Get(d, "description", PyStr("Scene " \o ToString(i)))
           mood == MoodOf(Get(d, "mood", PyStr("BALANCED")))
           energy == Get(d, "energy", PyStr("medium"))
       IN IF ~mood.ok THEN mood
          ELSE IF ~IsStr(description) \/ ~IsStr(energy)
                  \/ ("genres" \in DOMAIN d /\ ~IsStrList(d["genres"]))
               THEN Raise("ValidationError")
               ELSE Ok(Scene(i, description.v, mood.val,
                             IF "genres" \in DOMAIN d THEN TextList(d["genres"])
                             ELSE Take(selected_genres, GenreCut),
                             energy.v))

\* the loop over enumerate(data.get("scenes", [])[:max], 1): the list of scenes,
\* or the first exception raised
ScenesOf(data, selected_genres, max) ==
  LET raw == Get(data.v, "scenes", PyList(<<>>)) IN
  IF raw.t = "str" /\ raw.v = "" THEN Ok(<<>>)
  ELSE IF raw.t = "str" THEN Raise("AttributeError")
  ELSE IF raw.t # "list" THEN Raise("TypeError")
  ELSE LET cut == SliceTo(raw.v, max)
           built == [i \in 1..Len(cut) |-> SceneOf(i, cut[i], selected_genres)]
       IN IF \E i \in 1..Len(cut) : ~built[i].ok
          THEN built[CHOOSE i \in 1..Len(cut) :
                       ~built[i].ok /\ \A j \in 1..(i - 1) : built[j].ok]
          ELSE Ok([i \in 1..Len(cut) |-> built[i].val])

\* a story parser that ends the candidate object at the first "}" after its "{"
parse_story_response_first_close(response, selected_genres, max) ==
  LET json_start == find(response, "{")
      rest == Slice(response, json_start + 1, Len(response))
      json_end == json_start + 1 + find(rest, "}") + 1
      data == json_loads(Slice(response, json_start, json_end))
      scenes == ScenesOf(data.val, selected_genres, max)
  IN IF json_start # -1 /\ find(rest, "}") # -1 /\ data.ok /\ scenes.ok
        /\ scenes.val # <<>>
     THEN scenes.val
     ELSE fallback_story_scenes(<<>>, selected_genres)

\* _parse_story_response(response, selected_genres), max being settings.max_scenes
parse_story_response(response, selected_genres, max) ==
  LET json_start == find(response, "{")
      json_end == rfind(response, "}") + 1
  IN IF json_start # -1 /\ json_end > json_start
     THEN LET data == json_loads(Slice(response, json_start, json_end)) IN
          IF ~data.ok THEN fallback_story_scenes(<<>>, selected_genres)
          ELSE LET scenes == ScenesOf(data.val, selected_genres, max) IN
               IF scenes.ok /\ scenes.val # <<>> THEN scenes.val
               ELSE fallback_story_scenes(<<>>, selected_genres)
     ELSE fallback_story_scenes(<<>>, selected_genres)

\* DirectModeAnalysis(mood=..., extracted_genres=..., keywords=..., theme=...) of data
DirectOf(data, selected_genres) ==
  LET d == data.v
      mood == MoodOf(Get(d, "mood", PyStr("BALANCED")))
      theme == Get(d, "theme", PyStr("Music playlist"))
  IN IF ~mood.ok THEN mood
     ELSE IF ~IsStr(theme)
             \/ ("genres" \in DOMAIN d /\ ~IsStrList(d["genres"]))
             \/ ("keywords" \in DOMAIN d /\ ~IsStrList(d["keywords"]))
          THEN Raise("ValidationError")
          ELSE Ok([mood |-> mood.val,
                   extracted_genres |-> IF "genres" \in DOMAIN d
                                        THEN TextList(d["genres"]) ELSE selected_genres,
                   keywords |-> IF "keywords" \in DOMAIN d
                                THEN AtomList(d["keywords"]) ELSE <<>>,
                   theme |-> IF "theme" \in DOMAIN d THEN TextOf(theme.v)
                             ELSE TxtMusicPlaylist])

\* _parse_direct_response(response, selected_genres)
parse_direct_response(response, selected_genres) ==
  LET json_start == find(response, "{")
      json_end == rfind(response, "}") + 1
  IN IF json_start # -1 /\ json_end > json_start
     THEN LET data == json_loads(Slice(response, json_start, json_end)) IN
          IF ~data.ok THEN fallback_direct_analysis(<<>>, selected_genres)
          ELSE LET direct == DirectOf(data.val, selected_genres) IN
               IF direct.ok THEN direct.val
               ELSE fallback_direct_analysis(<<>>, selected_genres)
     ELSE fallback_direct_analysis(<<>>, selected_genres)

---------------------------------------------------------------------------
(* The inputs drawn: provider answers, prompts, genre lists *)

\* JSON values as the provider writes them; an object is its members in order
JStr(a) == [t |-> "str", v |-> a]
JNum(n) == [t |-> "num", v |-> n]
JArr(s) == [t |-> "arr", v |-> s]
JObj(members) == [t |-> "obj", v |-> members]

RECURSIVE Dumps(_), DumpsMembers(_), DumpsElements(_)

\* the lexemes of a JSON value
Dumps(x) ==
  CASE x.t = "str" -> <<Quote(x.v)>>
    [] x.t = "num" -> <<ToString(x.v)>>
    [] x.t = "arr" -> <<"[">> \o DumpsElements(x.v) \o <<"]">>
    [] x.t = "obj" -> <<"{">> \o DumpsMembers(x.v) \o <<"}">>

DumpsMembers(ms) ==
  IF ms = <<>> THEN <<>>
  ELSE <<Quote(ms[1][1]), ":">> \o Dumps(ms[1][2])
       \o (IF Len(ms) = 1 THEN <<>> ELSE <<",">> \o DumpsMembers(Tail(ms)))

DumpsElements(es) ==
  IF es = <<>> THEN <<>>
  ELSE Dumps(es[1]) \o (IF Len(es) = 1 THEN <<>> ELSE <<",">> \o DumpsElements(Tail(es)))

\* the kinds of element a "scenes" array is drawn from
SceneKinds == {"full", "plain", "empty", "badmood", "badtype", "notobj"}
\* the kinds whose fields all have the expected shape
GoodKinds == {"full", "plain", "empty"}

\* the j-th element of a "scenes" array, of kind k
SceneElem(k, j) ==
  CASE k = "full" -> JObj(<< <<"description", JStr(Desc(j))>>, <<"mood", JStr("UPBEAT")>>,
                             <<"genres", JArr(<<JStr("r")>>)>>, <<"energy", JStr("high")>> >>)
    [] k = "plain" -> JObj(<< <<"description", JStr(Desc(j))>>,
                              <<"searchQuery", JStr("soft piano")>> >>)
    [] k = "empty" -> JObj(<<>>)
    [] k = "badmood" -> JObj(<< <<"description", JStr(Desc(j))>>, <<"mood", JStr("HAPPY")>> >>)
    [] k = "badtype" -> JObj(<< <<"description", JNum(7)>>, <<"mood", JStr("CHILL")>> >>)
    [] k = "notobj" -> JNum(7)

\* the arrays drawn: up to MaxArr elements, at most one of them not "full"
KindLists ==
  UNION {{ks \in [1..n -> SceneKinds] :
            Cardinality({j \in 1..n : ks[j] # "full"}) <= 1} : n \in 0..MaxArr}

StoryObject(ks) ==
  JObj(<< <<"scenes", JArr([j \in 1..Len(ks) |-> SceneElem(ks[j], j)])>> >>)

\* the kinds of object a direct answer is drawn from
DirectKinds == {"full", "themeonly", "empty", "badmood", "badtheme", "badkeywords"}

DirectObject(k) ==
  CASE k = "full" -> JObj(<< <<"mood", JStr("CHILL")>>, <<"genres", JArr(<<JStr("r")>>)>>,
                             <<"keywords", JArr(<<JStr("k")>>)>>, <<"theme", JStr("T")>> >>)
    [] k = "themeonly" -> JObj(<< <<"theme", JStr("T")>> >>)
    [] k = "empty" -> JObj(<<>>)
    [] k = "badmood" -> JObj(<< <<"mood", JStr("HAPPY")>>, <<"theme", JStr("T")>> >>)
    [] k = "badtheme" -> JObj(<< <<"mood", JStr("CHILL")>>, <<"theme", JNum(7)>> >>)
    [] k = "badkeywords" -> JObj(<< <<"keywords", JStr("k")>>, <<"theme", JStr("T")>> >>)

\* prose around the object: nothing, a word, or a stray brace
Prose == {<<>>, <<"Sure">>, <<"{">>, <<"}">>}

\* what stands where the object should: the object, the object without its last
\* lexeme (an answer cut short), or nothing
BodyShapes == {"object", "cut", "none"}

Body(shape, obj) ==
  CASE shape = "object" -> Dumps(obj)
    [] shape = "cut" -> SubSeq(Dumps(obj), 1, Len(Dumps(obj)) - 1)
    [] shape = "none" -> <<>>

\* the forms of object a story answer is drawn from: a "scenes" array, no
\* "scenes" member, a "scenes" member that is no array
StoryForms == {"scenes", "noscenes", "notarray"}

StoryJson(form, ks) ==
  CASE form = "scenes" -> StoryObject(ks)
    [] form = "noscenes" -> JObj(<<>>)
    [] form = "notarray" -> JObj(<< <<"scenes", JNum(7)>> >>)

\* a provider answer to a story prompt: prose, a body, prose
StoryAnswers ==
  {[mode |-> STORY, pre |-> p, shape |-> "object", form |-> "scenes", kinds |-> ks,
    post |-> q] : p \in Prose, q \in Prose, ks \in KindLists}
  \cup {[mode |-> STORY, pre |-> p, shape |-> sh, form |-> f, kinds |-> <<"full">>,
         post |-> q] : p \in Prose, q \in Prose, sh \in BodyShapes, f \in StoryForms}

\* a provider answer to a direct prompt
DirectAnswers ==
  {[mode |-> DIRECT, pre |-> p, shape |-> sh, kind |-> k, post |-> q] :
     p \in Prose, q \in Prose, sh \in BodyShapes, k \in DirectKinds}

\* the JSON object an answer is built around
AnswerJson(a) ==
  IF a.mode = STORY THEN StoryJson(a.form, a.kinds) ELSE DirectObject(a.kind)

\* the text _call_huggingface returns for an answer
AnswerText(a) == a.pre \o Body(a.shape, AnswerJson(a)) \o a.post

RECURSIVE SeqsUpTo(_, _)
\* the sequences over S of length at most n
SeqsUpTo(S, n) ==
  IF n = 0 THEN {<<>>}
  ELSE SeqsUpTo(S, n - 1) \cup {Append(q, x) : q \in SeqsUpTo(S, n - 1), x \in S}

\* the prompts drawn: a unit of up to MaxUnit characters, once or ThemeLen times
Prompts == {Repeat(u, r) : u \in SeqsUpTo({"a", " "}, MaxUnit), r \in {1, ThemeLen}}

\* the prompts that pass the validation of AnalysisRequest
ValidPrompts == {p \in Prompts : Len(p) >= MinPromptLen}

GenreLists == {<<>>, <<TxtPop>>, <<TxtPop, TxtIndie, <<"r">>, <<"k">>>>}

Thresholds == 0..MaxThreshold

---------------------------------------------------------------------------
(* main.py: the cache key *)

\* f"{request.prompt}:{','.join(request.selected_genres)}:{','.join(request.top_artists)}"
prompt_hash_str(prompt, selected_genres, top_artists) ==
  prompt \o <<":">> \o join(<<",">>, selected_genres) \o <<":">> \o join(<<",">>, top_artists)

\* str(hash(prompt_hash_str)): hash is taken to be free of collisions, so the key
\* is determined by, and determines, the string hashed
prompt_hash(prompt, selected_genres, top_artists) ==
  [hash_of |-> prompt_hash_str(prompt, selected_genres, top_artists)]

\* the prompts, tags and tag lists the key is computed for
KeyPrompts ==
  {Repeat(<<"a">>, MinPromptLen), Repeat(<<"a">>, MinPromptLen) \o <<":">>,
   Repeat(<<"a">>, MinPromptLen) \o <<":", "a">>}
KeyTags == {<<"a">>, <<":">>, <<"a", ",", "a">>}
KeyLists == {<<>>, <<<<"a">>, <<"a">>>>} \cup {<<x>> : x \in KeyTags}
KeyInputs ==
  {[prompt |-> p, selected_genres |-> g, top_artists |-> a] :
     p \in KeyPrompts, g \in KeyLists, a \in KeyLists}

---------------------------------------------------------------------------
(* utils/prompt_builder.py and AIService: the provider call and the analysis *)

\* build_story_prompt called with nargs positional arguments
build_story_prompt(nargs) ==
  IF nargs # BuildPromptParams THEN Raise("TypeError") ELSE Ok("story instruction")

\* build_direct_prompt called with nargs positional arguments; its f-string reads
\* personalization_str, a name bound nowhere
build_direct_prompt(nargs) ==
  IF nargs # BuildPromptParams THEN Raise("TypeError") ELSE Raise("NameError")

\* what the provider does with one POST
ProviderKinds ==
  {"text", "error_payload", "unexpected", "http_503", "http_error", "timeout"}

\* self._call_huggingface(prompt), the provider behaving as outcome: the generated
\* text, or the exception raised
call_huggingface(outcome) ==
  CASE outcome.kind = "text" -> Ok(AnswerText(outcome.answer))
    [] outcome.kind = "http_503" -> Raise("Exception")
    [] outcome.kind = "http_error" -> Raise("HTTPStatusError")
    [] outcome.kind = "timeout" -> Raise("TimeoutException")
    [] OTHER -> Raise("Exception")

\* `except Exception` (ai_service.py:55, 65, 137; main.py:93) catches exc:
\* asyncio.CancelledError derives from BaseException, the others from Exception
except_Exception(exc) == exc \notin {"CancelledError"}

\* self._analyze_story(prompt, selected_genres)
analyze_story(prompt, selected_genres, outcome, max) ==
  LET system_prompt == build_story_prompt(BuildPromptArgs) IN
  IF ~system_prompt.ok THEN system_prompt
  ELSE LET response == call_huggingface(outcome) IN
       IF response.ok THEN Ok(parse_story_response(response.val, selected_genres, max))
       ELSE IF except_Exception(response.exc)
       THEN Ok(fallback_story_scenes(prompt, selected_genres))
       ELSE response

\* self._analyze_direct(prompt, selected_genres)
analyze_direct(prompt, selected_genres, outcome) ==
  LET system_prompt == build_direct_prompt(BuildPromptArgs) IN
  IF ~system_prompt.ok THEN system_prompt
  ELSE LET response == call_huggingface(outcome) IN
       IF response.ok THEN Ok(parse_direct_response(response.val, selected_genres))
       ELSE IF except_Exception(response.exc)
       THEN Ok(fallback_direct_analysis(prompt, selected_genres))
       ELSE response

None == [none |-> TRUE]
\* None in a field that otherwise holds a list
NoneList == <<None>>

\* AIAnalysisResponse(analysis_id=..., mode=..., scenes=... | direct_analysis=...)
AIAnalysisResponse(id, mode, scenes, direct) ==
  [analysis_id |-> id, mode |-> mode, scenes |-> scenes, direct_analysis |-> direct]

\* the part of analyze_prompt after the mode is chosen
analyze_prompt_body(prompt, selected_genres, mode, outcome, max, time) ==
  IF mode = STORY
  THEN LET scenes == analyze_story(prompt, selected_genres, outcome, max) IN
       IF ~scenes.ok THEN scenes
       ELSE Ok(AIAnalysisResponse(<<"ai", prompt, time>>, mode, scenes.val, None))
  ELSE LET direct == analyze_direct(prompt, selected_genres, outcome) IN
       IF ~direct.ok THEN direct
       ELSE Ok(AIAnalysisResponse(<<"ai", prompt, time>>, mode, NoneList, direct.val))

\* await ai_service.analyze_prompt(...) called with nargs positional arguments
analyze_prompt(nargs, prompt, selected_genres, story_threshold, outcome, max, time) ==
  IF nargs # AnalyzePromptParams THEN Raise("TypeError")
  ELSE analyze_prompt_body(prompt, selected_genres,
                           SelectMode(prompt, story_threshold), outcome, max, time)

\* the provider behaviours drawn for a prompt analysed in mode m: every failure,
\* an empty text, a well-formed answer and one with an unknown mood
Outcomes(m) ==
  {[kind |-> k] : k \in ProviderKinds \ {"text"}}
  \cup {[kind |-> "text", answer |-> a] :
          a \in IF m = STORY
                THEN {[mode |-> STORY, pre |-> <<>>, shape |-> sh, form |-> "scenes",
                       kinds |-> ks, post |-> <<>>] :
                        sh \in {"object", "none"}, ks \in {<<"full">>, <<"badmood">>}}
                ELSE {[mode |-> DIRECT, pre |-> <<>>, shape |-> sh, kind |-> k,
                       post |-> <<>>] :
                        sh \in {"object", "none"}, k \in {"full", "badmood"}}}

---------------------------------------------------------------------------
(* CacheService *)

\* {"$set": fields} applied to a document: the fields named are replaced, the
\* others kept
set_fields(doc, fields) ==
  [k \in DOMAIN doc \cup DOMAIN fields |->
     IF k \in DOMAIN fields THEN fields[k] ELSE doc[k]]

\* the document update_one(..., upsert=True) leaves under prompt_hash where there
\* was none: the filter's field and the fields set, {**analysis, "cached_at": time}
Document(key, analysis, time) ==
  set_fields([prompt_hash |-> key], [cached_at |-> time] @@ analysis)

\* find_one / update_one with the filter {"prompt_hash": key}: the position of the
\* first document of the collection that matches, 0 when none does
first_match(st, key) ==
  IF \E i \in 1..Len(st) : st[i].prompt_hash = key
  THEN CHOOSE i \in 1..Len(st) :
         /\ st[i].prompt_hash = key
         /\ \A j \in 1..(i - 1) : st[j].prompt_hash # key
  ELSE 0

\* get_cached_analysis(prompt_hash): the document, or None; fails says that
\* find_one raises
get_cached_analysis(coll, st, key, fails) ==
  IF coll = "none" THEN None
  ELSE IF fails THEN None
  ELSE IF first_match(st, key) # 0 THEN st[first_match(st, key)] ELSE None

\* cache_analysis with insert_one in place of the upsert
cache_analysis_insert_one(coll, st, key, analysis, time, fails) ==
  IF coll = "none" THEN st
  ELSE IF fails THEN st
  ELSE Append(st, Document(key, analysis, time))

\* cache_analysis(prompt_hash, analysis): the collection afterwards; fails says
\* that update_one raises
cache_analysis(coll, st, key, analysis, time, fails) ==
  IF coll = "none" THEN st
  ELSE IF fails THEN st
  ELSE IF first_match(st, key) # 0
  THEN [st EXCEPT ![first_match(st, key)] =
          set_fields(st[first_match(st, key)], [cached_at |-> time] @@ analysis)]
  ELSE Append(st, Document(key, analysis, time))

---------------------------------------------------------------------------
(* main.py: POST /ai/analyze *)

Http500(detail) == [status |-> 500, detail |-> detail]
Http200(body, cached, posts) ==
  [status |-> 200, body |-> body, from_cache |-> cached, provider_calls |-> posts]

\* AIAnalysisResponse(**d): the analysis a document of the cache holds
AnalysisIn(d) == AIAnalysisResponse(d.analysis_id, d.mode, d.scenes, d.direct_analysis)

\* analyze_story(request): the response, and the collection afterwards
Endpoint(request, coll, st, time, fails_get, fails_put, outcome, max) ==
  IF "top_artists" \notin AnalysisRequestFields
  THEN [response |-> Http500("AttributeError"), store |-> st]
  ELSE LET key == prompt_hash(request.prompt, request.selected_genres,
                              request.top_artists)
           cached == get_cached_analysis(coll, st, key, fails_get)
       IN IF cached # None
          THEN [response |-> Http200(AnalysisIn(cached), TRUE, 0), store |-> st]
          ELSE LET analysis == analyze_prompt(AnalyzePromptArgs, request.prompt,
                                              request.selected_genres,
                                              request.story_threshold, outcome, max, time)
               IN IF ~analysis.ok
                  THEN [response |-> Http500(analysis.exc), store |-> st]
                  ELSE [response |-> Http200(analysis.val, FALSE, 1),
                        store |-> cache_analysis(coll, st, key, analysis.val, time,
                                                 fails_put)]

\* the prompts sent to the endpoint
EndpointPrompts == {p \in ValidPrompts : Len(p) <= ThemeLen}

\* AnalysisRequest objects
Requests ==
  {[prompt |-> p, selected_genres |-> g, story_threshold |-> t] :
     p \in EndpointPrompts, g \in GenreLists, t \in Thresholds}

---------------------------------------------------------------------------
(* The state at rest *)

Idle == [op |-> "idle"]
NoStore == <<>>

AtRest ==
  /\ started = FALSE
  /\ collection = "none"
  /\ store = NoStore
  /\ now = 0
  /\ cache_ret = Idle
  /\ log = <<>>
  /\ svc = Idle
  /\ call = Idle
  /\ hf = Idle

---------------------------------------------------------------------------
(* SpecFn: the synchronous functions of the service, applied to drawn inputs *)

\* the process before its startup, settings loaded
Init == max_scenes \in 1..MaxScenesCfg /\ AtRest

InitFn == max_scenes \in 1..MaxScenesCfg /\ AtRest

FnFrame == UNCHANGED <<max_scenes, started, collection, store, now, cache_ret, log, svc, hf>>

\* self._parse_story_response(response, selected_genres)
ParseStoryResponse ==
  /\ call = Idle
  /\ \E a \in StoryAnswers, g \in GenreLists :
       call' = [op |-> "parse_story", answer |-> a, response |-> AnswerText(a),
                selected_genres |-> g,
                result |-> parse_story_response(AnswerText(a), g, max_scenes)]
  /\ FnFrame

\* self._parse_direct_response(response, selected_genres), in the analysis of prompt
ParseDirectResponse ==
  /\ call = Idle
  /\ \E a \in DirectAnswers, g \in GenreLists, p \in ValidPrompts :
       call' = [op |-> "parse_direct", prompt |-> p, answer |-> a,
                response |-> AnswerText(a), selected_genres |-> g,
                result |-> parse_direct_response(AnswerText(a), g)]
  /\ FnFrame

\* self._fallback_story_scenes(prompt, selected_genres)
FallbackStoryScenes ==
  /\ call = Idle
  /\ \E p \in Prompts, g \in GenreLists :
       call' = [op |-> "fallback_story", prompt |-> p, selected_genres |-> g,
                result |-> fallback_story_scenes(p, g)]
  /\ FnFrame

\* self._fallback_direct_analysis(prompt, selected_genres)
FallbackDirectAnalysis ==
  /\ call = Idle
  /\ \E p \in Prompts, g \in GenreLists :
       call' = [op |-> "fallback_direct", prompt |-> p, selected_genres |-> g,
                result |-> fallback_direct_analysis(p, g)]
  /\ FnFrame

\* the cache keys of two requests
PromptHash ==
  /\ call = Idle
  /\ \E a \in KeyInputs, b \in KeyInputs :
       call' = [op |-> "prompt_hash", a |-> a, b |-> b,
                key_a |-> prompt_hash(a.prompt, a.selected_genres, a.top_artists),
                key_b |-> prompt_hash(b.prompt, b.selected_genres, b.top_artists)]
  /\ FnFrame

\* the function has returned and its result has been used
Return ==
  /\ call # Idle
  /\ call' = Idle
  /\ FnFrame

NextFn ==
  \/ ParseStoryResponse
  \/ ParseDirectResponse
  \/ FallbackStoryScenes
  \/ FallbackDirectAnalysis
  \/ PromptHash
  \/ Return

SpecFn == InitFn /\ [][NextFn]_vars

---------------------------------------------------------------------------
(* SpecService: AIService.analyze_prompt called with its three parameters *)

ServiceFrame ==
  UNCHANGED <<max_scenes, started, collection, store, now, cache_ret, log, call, hf>>

\* analyze_prompt, lines 27-32: the word count and the mode, logged
AnalyzePromptSelect ==
  /\ svc = Idle
  /\ \E p \in Prompts, g \in GenreLists, t \in Thresholds :
       svc' = [op |-> "analyze_prompt", pc |-> "selected", prompt |-> p,
               selected_genres |-> g, story_threshold |-> t,
               word_count |-> Len(split(p)), mode |-> SelectMode(p, t)]
  /\ ServiceFrame

\* analyze_prompt, lines 34-47: the analysis in the mode chosen
AnalyzePromptRun ==
  /\ svc # Idle /\ svc.pc = "selected"
  /\ \E outcome \in Outcomes(svc.mode) :
       LET r == analyze_prompt_body(svc.prompt, svc.selected_genres, svc.mode,
                                    outcome, max_scenes, now)
       IN svc' = [op |-> "analyze_prompt", pc |-> IF r.ok THEN "returned" ELSE "raised",
                  prompt |-> svc.prompt, selected_genres |-> svc.selected_genres,
                  story_threshold |-> svc.story_threshold,
                  word_count |-> svc.word_count, mode |-> svc.mode,
                  outcome |-> outcome.kind, result |-> r]
  /\ ServiceFrame

\* the caller has the result or the exception
AnalyzePromptDone ==
  /\ svc # Idle /\ svc.pc \in {"returned", "raised"}
  /\ svc' = Idle
  /\ ServiceFrame

InitService == max_scenes \in 1..MaxScenesCfg /\ AtRest

NextService == AnalyzePromptSelect \/ AnalyzePromptRun \/ AnalyzePromptDone

SpecService == InitService /\ [][NextService]_vars

---------------------------------------------------------------------------
(* Spec: the service process, from startup, answering POST /ai/analyze *)

\* lifespan: await cache_service.connect(); the client is built or the exception
\* is logged and collection stays None
Startup ==
  /\ ~started
  /\ started' = TRUE
  /\ collection' \in {"ready", "none"}
  /\ UNCHANGED <<max_scenes, store, now, cache_ret, log, svc, call, hf>>

\* POST /ai/analyze with a validated AnalysisRequest.  A handler runs without
\* interruption up to its first await, and line 72 raises before any await is
\* reached: a request is handled in one step, also when several are in flight.
AnalyzeStoryEndpoint ==
  /\ started
  /\ Len(log) < MaxRequests
  /\ \E request \in Requests, fails_get \in BOOLEAN, fails_put \in BOOLEAN :
       \E outcome \in Outcomes(SelectMode(request.prompt, request.story_threshold)) :
         LET r == Endpoint(request, collection, store, now, fails_get, fails_put,
                           outcome, max_scenes)
         IN /\ log' = Append(log, [request |-> request, collection |-> collection,
                                   time |-> now, fails_put |-> fails_put,
                                   provider_ok |-> call_huggingface(outcome).ok,
                                   before |-> store, after |-> r.store,
                                   response |-> r.response])
            /\ store' = r.store
  /\ now' = now + 1
  /\ UNCHANGED <<max_scenes, started, collection, cache_ret, svc, call, hf>>

Next == Startup \/ AnalyzeStoryEndpoint

Spec == Init /\ [][Next]_vars

---------------------------------------------------------------------------
(* SpecCache: the cache service, from startup, under its two calls *)

\* the keys and the analyses the cache is called with
CacheKeys ==
  {prompt_hash(Repeat(<<"a">>, MinPromptLen), g, <<>>) : g \in {<<>>, <<TxtPop>>}}
CacheAnalyses ==
  {AIAnalysisResponse(<<"ai", Repeat(<<"a">>, MinPromptLen), 0>>, DIRECT, NoneList,
                      fallback_direct_analysis(Repeat(<<"a">>, MinPromptLen), <<>>)),
   AIAnalysisResponse(<<"ai", Repeat(<<"a">>, MinPromptLen), 0>>, STORY,
                      fallback_story_scenes(<<>>, <<>>), None)}

\* await cache_service.get_cached_analysis(prompt_hash)
GetCachedAnalysis ==
  /\ started
  /\ \E key \in CacheKeys, fails \in BOOLEAN :
       cache_ret' = [op |-> "get", key |-> key, raised |-> collection # "none" /\ fails,
                     result |-> get_cached_analysis(collection, store, key, fails)]
  /\ UNCHANGED <<max_scenes, started, collection, store, now, log, svc, call, hf>>

\* await cache_service.cache_analysis(prompt_hash, analysis)
CacheAnalysis ==
  /\ started
  /\ now < MaxPuts
  /\ \E key \in CacheKeys, analysis \in CacheAnalyses, fails \in BOOLEAN :
       /\ store' = cache_analysis(collection, store, key, analysis, now + 1, fails)
       /\ cache_ret' = [op |-> "put", key |-> key, analysis |-> analysis,
                        before |-> store,
                        raised |-> collection # "none" /\ fails, result |-> None]
  /\ now' = now + 1
  /\ UNCHANGED <<max_scenes, started, collection, log, svc, call, hf>>

NextCache == Startup \/ GetCachedAnalysis \/ CacheAnalysis

SpecCache == Init /\ [][NextCache]_vars

---------------------------------------------------------------------------
(* SpecClient: AIService._call_huggingface, called with an instruction text, *)
(* step by step, the provider and the clock being the environment           *)

\* the status code behind an HTTPStatusError
StatusOf(outcome) == IF outcome.kind = "http_503" THEN 503 ELSE 401

\* except httpx.HTTPStatusError with a retry in place of the raise after the sleep
on_http_status_error_retry(status_code) ==
  IF status_code = 503 THEN <<"sleep", "post">> ELSE <<"raise">>

\* except httpx.HTTPStatusError (lines 126-136): what the handler does, in order
on_http_status_error(status_code) ==
  IF status_code = 503 THEN <<"sleep", "raise">> ELSE <<"raise">>

\* a client built without a timeout
timed_out_never(waited) == FALSE

\* the timeout of the client has run out on the pending POST
timed_out(waited) == waited >= ClientTimeout

\* what the provider may send back to one POST
Responses ==
  {o \in Outcomes(STORY) \cup Outcomes(DIRECT) : o.kind # "timeout"}

ClientFrame ==
  UNCHANGED <<max_scenes, started, collection, store, now, cache_ret, log, svc, call>>

\* await self._call_huggingface(system_prompt): the client is built (line 90)
HfCall ==
  /\ hf = Idle
  /\ hf' = [op |-> "call_huggingface", pc |-> "post", posts |-> 0, loading |-> 0,
            waited |-> 0, cancelled |-> FALSE, outcome |-> [kind |-> "pending"],
            result |-> None]
  /\ ClientFrame

\* await client.post(api_url, headers=..., json=payload) is sent (lines 93-97)
HfPost ==
  /\ hf # Idle /\ hf.pc = "post"
  /\ hf' = [hf EXCEPT !.pc = "awaiting", !.posts = @ + 1, !.waited = 0]
  /\ ClientFrame

\* a second passes without an answer
HfTick ==
  /\ hf # Idle /\ hf.pc = "awaiting"
  /\ hf.waited < ClientTimeout
  /\ hf' = [hf EXCEPT !.waited = @ + 1]
  /\ ClientFrame

\* the client gives up: httpx.TimeoutException, logged and raised again (lines 137-139)
HfTimeout ==
  /\ hf # Idle /\ hf.pc = "awaiting"
  /\ timed_out(hf.waited)
  /\ hf' = [hf EXCEPT !.pc = "raised", !.outcome = [kind |-> "timeout"],
                      !.result = call_huggingface([kind |-> "timeout"])]
  /\ ClientFrame

\* the provider answers
HfRespond ==
  /\ hf # Idle /\ hf.pc = "awaiting"
  /\ \E o \in Responses : hf' = [hf EXCEPT !.pc = "responded", !.outcome = o]
  /\ ClientFrame

\* lines 100-136: the answer is read; the text is returned, http 503 is slept on,
\* anything else is raised
HfHandle ==
  /\ hf # Idle /\ hf.pc = "responded"
  /\ IF hf.outcome.kind \in {"http_503", "http_error"}
        /\ on_http_status_error(StatusOf(hf.outcome))[1] = "sleep"
     THEN hf' = [hf EXCEPT !.pc = "sleeping", !.loading = @ + 1]
     ELSE hf' = [hf EXCEPT !.pc = IF call_huggingface(hf.outcome).ok THEN "returned"
                                  ELSE "raised",
                           !.result = call_huggingface(hf.outcome)]
  /\ ClientFrame

\* await asyncio.sleep(10) is over (line 133) and the handler goes on (line 134)
HfWake ==
  /\ hf # Idle /\ hf.pc = "sleeping"
  /\ IF on_http_status_error(StatusOf(hf.outcome))[2] = "raise"
     THEN hf' = [hf EXCEPT !.pc = "raised", !.result = call_huggingface(hf.outcome)]
     ELSE hf' = [hf EXCEPT !.pc = "post"]
  /\ ClientFrame

\* the task is cancelled while it is suspended in the POST or in the sleep:
\* CancelledError is raised there and no except clause of the call catches it
HfCancel ==
  /\ hf # Idle /\ hf.pc \in {"awaiting", "sleeping"}
  /\ hf' = [hf EXCEPT !.pc = "raised", !.cancelled = TRUE,
                      !.result = Raise("CancelledError")]
  /\ ClientFrame

\* the caller has the text or the exception
HfDone ==
  /\ hf # Idle /\ hf.pc \in {"returned", "raised"}
  /\ hf' = Idle
  /\ ClientFrame

InitClient == max_scenes \in 1..MaxScenesCfg /\ AtRest

NextClient ==
  \/ HfCall
  \/ HfPost
  \/ HfTick
  \/ HfTimeout
  \/ HfRespond
  \/ HfHandle
  \/ HfWake
  \/ HfCancel
  \/ HfDone

SpecClient == InitClient /\ [][NextClient]_vars

\* the event loop runs every step of the call that is ready, and the clock and
\* the timers go on; the provider need not answer and nobody need cancel
FairSpecClient ==
  /\ SpecClient
  /\ WF_vars(HfPost)
  /\ WF_vars(HfTick)
  /\ WF_vars(HfTimeout)
  /\ WF_vars(HfHandle)
  /\ WF_vars(HfWake)
  /\ WF_vars(HfDone)

---------------------------------------------------------------------------
(* The claims *)

Min(a, b) == IF a < b THEN a ELSE b

\* the number of words of s, counted by where they end
WordsIn(s) ==
  Cardinality({i \in 1..Len(s) :
                 s[i] \notin Whitespace /\ (i = Len(s) \/ s[i + 1] \in Whitespace)})

\* the response carries an analysis with exactly the part its mode selects
WellFormed(r) ==
  /\ r.status = 200
  /\ \/ r.body.mode = STORY /\ r.body.scenes # NoneList /\ r.body.scenes # <<>>
        /\ r.body.direct_analysis = None
     \/ r.body.mode = DIRECT /\ r.body.direct_analysis # None
        /\ r.body.scenes = NoneList

\* C1: every request handled ends with an analysis returned to the caller, never
\* with a failure status.
C1_PipelineTotal == \A i \in 1..Len(log) : log[i].response.status = 200

\* C2: once analyze_prompt has chosen the mode, the mode is STORY exactly when the
\* number of whitespace-separated words of the prompt is at least the threshold.
C2_ModeSelection ==
  svc # Idle =>
    /\ svc.mode \in {STORY, DIRECT}
    /\ svc.mode = STORY <=> WordsIn(svc.prompt) >= svc.story_threshold

\* C2, the boundary: a prompt of exactly story_threshold (> 0) words, analysed as a story
C2_Witness ==
  /\ svc # Idle
  /\ svc.story_threshold > 0
  /\ WordsIn(svc.prompt) = svc.story_threshold
  /\ svc.mode = STORY

\* C3: every response handed to the caller is an analysis with exactly one of
\* scenes / direct_analysis populated, the one its mode selects.
C3_ExactlyOnePopulated == \A i \in 1..Len(log) : WellFormed(log[i].response)

\* C4: in direct mode, when the provider text holds no JSON object, the result
\* returned is the fallback of the request: its theme is the first 50 characters
\* of the request's prompt, its genres and keywords are not empty.
C4_DirectFallbackKeepsPrompt ==
  (call.op = "parse_direct" /\ find(call.response, "{") = -1) =>
    /\ call.result.theme = Take(call.prompt, ThemeLen)
    /\ call.result.extracted_genres # <<>>
    /\ call.result.keywords # <<>>

\* C5: with the collection connected, the second of two requests with the same
\* prompt and genres is answered from the cache, without a provider call, with the
\* analysis the first one got.
C5_SecondServedFromCache ==
  \A i \in 1..Len(log), j \in 1..Len(log) :
    (/\ i < j
     /\ log[i].collection = "ready"
     /\ log[i].request.prompt = log[j].request.prompt
     /\ log[i].request.selected_genres = log[j].request.selected_genres)
    => /\ log[i].response.status = 200
       /\ log[j].response.status = 200
       /\ log[j].response.from_cache
       /\ log[j].response.provider_calls = 0
       /\ log[j].response.body.scenes = log[i].response.body.scenes
       /\ log[j].response.body.direct_analysis = log[i].response.body.direct_analysis

\* C6: a request handled while the collection is not connected still gets an
\* analysis, computed and not read from the cache, and the cache stays as it was.
C6_ResultWithoutCache ==
  \A i \in 1..Len(log) :
    log[i].collection = "none" =>
      /\ log[i].response.status = 200
      /\ ~log[i].response.from_cache
      /\ store = NoStore

\* C7: every list of scenes the story parser or the story fallback returns is
\* numbered 1..k in order, with k at most settings.max_scenes.
C7_SceneNumbersWithinMax ==
  call.op \in {"parse_story", "fallback_story"} =>
    /\ Len(call.result) <= max_scenes
    /\ \A i \in 1..Len(call.result) : call.result[i].scene_number = i

\* C8: two requests get the same cache key exactly when they agree in prompt,
\* selected genres and top artists.
C8_KeyInjective ==
  call.op = "prompt_hash" => (call.key_a = call.key_b <=> call.a = call.b)

\* the answer is a whole object between prose free of braces
CleanObject(a) ==
  /\ a.shape = "object"
  /\ \A i \in 1..Len(a.pre) : a.pre[i] \notin {"{", "}"}
  /\ \A i \in 1..Len(a.post) : a.post[i] \notin {"{", "}"}

\* C9: a scene whose mood is not a known one, or whose description is no string,
\* gets the default for that field; the scene's other fields and the other scenes
\* are those of the provider's array.  Likewise for a direct answer and its theme.
C9_BadFieldDefaulted ==
  /\ (/\ call.op = "parse_story"
      /\ CleanObject(call.answer)
      /\ call.answer.form = "scenes"
      /\ \E j \in 1..Min(Len(call.answer.kinds), max_scenes) :
           call.answer.kinds[j] \in {"badmood", "badtype"})
     => /\ Len(call.result) = Min(Len(call.answer.kinds), max_scenes)
        /\ \A j \in 1..Len(call.result) :
             /\ call.answer.kinds[j] \in {"full", "badmood"}
                  => call.result[j].description = Desc(j)
             /\ call.answer.kinds[j] = "badmood" => call.result[j].mood = "BALANCED"
             /\ call.answer.kinds[j] = "badtype"
                  => /\ call.result[j].description = "Scene " \o ToString(j)
                     /\ call.result[j].mood = "CHILL"
  /\ (/\ call.op = "parse_direct"
      /\ CleanObject(call.answer)
      /\ call.answer.kind = "badmood")
     => call.result.mood = "BALANCED" /\ call.result.theme = TextOf("T")

\* the description the parser owes the j-th scene of kind k
DescriptionOf(k, j) == IF k = "empty" THEN "Scene " \o ToString(j) ELSE Desc(j)

\* the answer is an object of well-shaped fields: a non-empty "scenes" array of
\* well-shaped scenes, or a well-shaped direct object
WellShaped(a) ==
  /\ a.shape = "object"
  /\ IF a.mode = STORY
     THEN /\ a.form = "scenes"
          /\ a.kinds # <<>>
          /\ \A j \in 1..Len(a.kinds) : a.kinds[j] \in GoodKinds
     ELSE a.kind \in {"full", "themeonly", "empty"}

\* no "{" of the text has a "}" after it
NoBracePair(text) ==
  ~\E i \in 1..Len(text), j \in 1..Len(text) : i < j /\ text[i] = "{" /\ text[j] = "}"

\* C10 as claimed: whatever the prose around a well-shaped object (its array no
\* longer than settings.max_scenes), the story parser returns one scene per
\* element of the array, with the element's description.
C10_RecoversFromAnyProse ==
  (/\ call.op = "parse_story"
   /\ WellShaped(call.answer)
   /\ Len(call.answer.kinds) <= max_scenes) =>
    /\ Len(call.result) = Len(call.answer.kinds)
    /\ \A j \in 1..Len(call.result) :
         call.result[j].description = DescriptionOf(call.answer.kinds[j], j)

\* C10 as amended: when no "{" precedes and no "}" follows a well-shaped object,
\* the story parser returns one scene for each of the first max_scenes elements,
\* numbered from 1, with the element's description, and the direct parser returns
\* the object's theme and mood; a text without a "{" ... "}" pair gives the
\* fallback of the empty prompt.
C10_RecoversFromBraceFreeProse ==
  /\ (/\ call.op = "parse_story"
      /\ WellShaped(call.answer)
      /\ \A i \in 1..Len(call.answer.pre) : call.answer.pre[i] # "{"
      /\ \A i \in 1..Len(call.answer.post) : call.answer.post[i] # "}")
     => /\ Len(call.result) = Min(Len(call.answer.kinds), max_scenes)
        /\ \A j \in 1..Len(call.result) :
             /\ call.result[j].scene_number = j
             /\ call.result[j].description = DescriptionOf(call.answer.kinds[j], j)
  /\ (/\ call.op = "parse_direct"
      /\ WellShaped(call.answer)
      /\ \A i \in 1..Len(call.answer.pre) : call.answer.pre[i] # "{"
      /\ \A i \in 1..Len(call.answer.post) : call.answer.post[i] # "}")
     => /\ call.result.theme = IF call.answer.kind = "empty" THEN TxtMusicPlaylist
                               ELSE TextOf("T")
        /\ call.result.mood = IF call.answer.kind = "full" THEN "CHILL" ELSE "BALANCED"
        /\ call.result.keywords = IF call.answer.kind = "full" THEN <<"k">> ELSE <<>>
  /\ (call.op = "parse_story" /\ NoBracePair(call.response))
     => call.result = fallback_story_scenes(<<>>, call.selected_genres)
  /\ (call.op = "parse_direct" /\ NoBracePair(call.response))
     => call.result = fallback_direct_analysis(<<>>, call.selected_genres)

\* C10: the answer of scenario B between two words of prose, parsed into its one scene
C10_Witness ==
  /\ call.op = "parse_story"
  /\ call.answer.pre = <<"Sure">> /\ call.answer.post = <<"Sure">>
  /\ call.answer.shape = "object" /\ call.answer.form = "scenes"
  /\ call.answer.kinds = <<"plain">>
  /\ Len(call.result) = 1
  /\ call.result[1].scene_number = 1
  /\ call.result[1].description = Desc(1)

\* C13: after a cache_analysis(f, r) that reached the collection, the collection
\* holds exactly one document for f and get_cached_analysis(f) gives r; when the
\* document for f already held r, the collection differs from the one before only
\* in a later cached_at of that document; when it held another analysis, that one
\* is replaced by r.
C13_UpsertIdempotent ==
  (cache_ret.op = "put" /\ collection = "ready" /\ ~cache_ret.raised) =>
    LET f == cache_ret.key
        r == cache_ret.analysis
        before == cache_ret.before
        i == first_match(before, f)
    IN /\ Cardinality({j \in 1..Len(store) : store[j].prompt_hash = f}) = 1
       /\ AnalysisIn(get_cached_analysis(collection, store, f, FALSE)) = r
       /\ (i # 0 /\ AnalysisIn(before[i]) = r) =>
            /\ Len(store) = Len(before)
            /\ \A j \in 1..Len(before) : j # i => store[j] = before[j]
            /\ store[i] = [before[i] EXCEPT !.cached_at = store[i].cached_at]
            /\ store[i].cached_at > before[i].cached_at

\* C13: the same analysis written a second time under the same key
C13_Witness ==
  /\ cache_ret.op = "put" /\ collection = "ready" /\ ~cache_ret.raised
  /\ first_match(cache_ret.before, cache_ret.key) # 0
  /\ AnalysisIn(cache_ret.before[first_match(cache_ret.before, cache_ret.key)])
       = cache_ret.analysis
  /\ Len(store) = Len(cache_ret.before)
  /\ store[first_match(store, cache_ret.key)].cached_at
       > cache_ret.before[first_match(cache_ret.before, cache_ret.key)].cached_at

\* C13: an analysis written over a different one under the same key
C13_WitnessReplace ==
  /\ cache_ret.op = "put" /\ collection = "ready" /\ ~cache_ret.raised
  /\ first_match(cache_ret.before, cache_ret.key) # 0
  /\ AnalysisIn(cache_ret.before[first_match(cache_ret.before, cache_ret.key)])
       # cache_ret.analysis
  /\ AnalysisIn(store[first_match(store, cache_ret.key)]) = cache_ret.analysis


\* C14: whatever the prompt and the genres, the empty ones included, the story
\* fallback returns a non-empty list of scenes numbered 1, 2, ... each with a
\* non-empty description, a known mood, a non-empty genre list and a non-empty
\* energy level, and the direct fallback returns a known mood, a non-empty theme,
\* a non-empty genre list and non-empty keywords.
C14_FallbackTotal ==
  /\ call.op = "fallback_story" =>
       /\ call.result # <<>>
       /\ \A i \in 1..Len(call.result) :
            /\ call.result[i].scene_number = i
            /\ call.result[i].description # ""
            /\ call.result[i].mood \in MoodType
            /\ call.result[i].suggested_genres # <<>>
            /\ call.result[i].energy_level # ""
  /\ call.op = "fallback_direct" =>
       /\ call.result.mood \in MoodType
       /\ call.result.theme # <<>>
       /\ call.result.extracted_genres # <<>>
       /\ call.result.keywords # <<>>

\* C14: the direct fallback of the empty prompt and no genres
C14_Witness ==
  /\ call.op = "fallback_direct"
  /\ call.prompt = <<>>
  /\ call.selected_genres = <<>>
  /\ call.result.theme = TxtGeneralPlaylist
  /\ call.result.extracted_genres = <<TxtPop, TxtIndie>>


\* the i-th and the j-th request handled agree in what the cache key is made of
SameFingerprint(i, j) ==
  /\ log[i].request.prompt = log[j].request.prompt
  /\ log[i].request.selected_genres = log[j].request.selected_genres

\* C12: two requests with the same prompt and genres, both handled with the
\* collection connected and its writes succeeding, each get a well-formed analysis,
\* and the collection then holds the analysis of the later writer of the two.
C12_SameKeyLastWriterWins ==
  \A i \in 1..Len(log), j \in 1..Len(log) :
    (/\ i < j
     /\ SameFingerprint(i, j)
     /\ log[i].collection = "ready"
     /\ ~log[i].fails_put /\ ~log[j].fails_put)
    => /\ WellFormed(log[i].response)
       /\ WellFormed(log[j].response)
       /\ LET last == IF log[j].response.from_cache THEN i ELSE j
          IN \E k \in 1..Len(store) : AnalysisIn(store[k]) = log[last].response.body

\* C17: every request handled is answered with an analysis whose mode is STORY
\* exactly when the number of words of that request's prompt is at least that
\* request's story_threshold.
C17_ModeAgreesWithRequest ==
  \A i \in 1..Len(log) :
    /\ log[i].response.status = 200
    /\ log[i].response.body.mode = STORY
         <=> WordsIn(log[i].request.prompt) >= log[i].request.story_threshold

\* C18: a request handled with the collection connected, empty and writable, while
\* the provider fails, is answered with an analysis that the collection holds
\* afterwards, and every later request with the same prompt and genres is answered
\* with that analysis from the cache, without a provider call.
C18_FallbackIsCached ==
  \A i \in 1..Len(log) :
    (/\ log[i].collection = "ready"
     /\ log[i].before = NoStore
     /\ ~log[i].fails_put
     /\ ~log[i].provider_ok)
    => /\ log[i].response.status = 200
       /\ \E k \in 1..Len(log[i].after) :
            AnalysisIn(log[i].after[k]) = log[i].response.body
       /\ \A j \in (i + 1)..Len(log) :
            SameFingerprint(i, j) =>
              /\ log[j].response.status = 200
              /\ log[j].response.from_cache
              /\ log[j].response.provider_calls = 0
              /\ log[j].response.body = log[i].response.body

\* C19: handling a request changes at most one document of the collection; a
\* request answered from the cache changes none; a request that finds the
\* collection connected, empty and writable leaves exactly one document in it,
\* holding the analysis it was answered with.
C19_OnlyOwnEntryWritten ==
  \A i \in 1..Len(log) :
    /\ Len(log[i].after) >= Len(log[i].before)
    /\ Cardinality({k \in 1..Len(log[i].before) : log[i].after[k] # log[i].before[k]})
         + (Len(log[i].after) - Len(log[i].before)) <= 1
    /\ (log[i].response.status = 200 /\ log[i].response.from_cache)
         => log[i].after = log[i].before
    /\ (/\ log[i].collection = "ready"
        /\ log[i].before = NoStore
        /\ ~log[i].fails_put)
       => /\ Len(log[i].after) = 1
          /\ log[i].response.status = 200
          /\ AnalysisIn(log[i].after[1]) = log[i].response.body


\* C11: one call of _call_huggingface sends at most two POSTs, a second one only
\* after the provider has answered that the model is loading (503); a call that
\* fails ends with an exception that the except clauses of _analyze_story and
\* _analyze_direct catch, which return the fallback.
C11_BoundedProviderCalls ==
  hf # Idle =>
    /\ hf.posts <= 2
    /\ hf.posts = 2 => hf.loading >= 1
    /\ (hf.pc = "raised" /\ ~hf.cancelled) => except_Exception(hf.result.exc)

\* C11: the provider has answered 503 to the one POST of the call, the call has
\* slept and raised
C11_Witness ==
  /\ hf # Idle
  /\ hf.pc = "raised"
  /\ hf.outcome.kind = "http_503"
  /\ hf.loading = 1
  /\ hf.posts = 1
  /\ hf.result = Raise("Exception")

C16_CancelFallsBack ==
  (hf # Idle /\ hf.pc = "raised" /\ hf.cancelled) => except_Exception(hf.result.exc)


====
